---- MODULE Spec2Model ----
(***************************************************************************)
(* Model of contributions.py: the bounded GitHub client (GHClient), the    *)
(* cursor paginator (paginated), the contributor-stats poller and the      *)
(* scheduler/aggregator (list_contributions).                              *)
(*                                                                         *)
(* asyncio runs one coroutine at a time and switches only at an await that *)
(* really suspends (a semaphore that is taken, a network read, a sleep).   *)
(* Every action below is therefore one run of a coroutine from one         *)
(* suspension point to the next. Leaving an async with block of the client *)
(* (a semaphore release, the release of a response) does not suspend.      *)
(***************************************************************************)
EXTENDS Integers, Sequences, FiniteSets, TLC

\* ------------------------------------------------------------------ bounds
MaxCap == 2      \* caps concur_max, contrib_max range over 1..MaxCap
MaxPages == 2    \* pages of one listing
MaxPolls == 1    \* 202 answers counted exactly; the counters saturate above

\* ------------------------------------------------------------- vocabulary
MAIN == 0                       \* waiter id of the list_contributions coroutine
NoCursor == <<"none">>          \* after=None
NoUser == ""                    \* username=None
NoQuery == [kind |-> "none", name |-> "", after |-> NoCursor, inst |-> 0]
LOGIN == "alice"                \* login of the authenticated viewer / target user
ORGS == "orgs"                  \* listing name of the organizations query
OrgLogins == {"acme"}
OwnerArgs == {<<>>, <<"acme">>, <<LOGIN>>}
RepoNames == <<"r1", "r2">>     \* names of the repositories the server holds
Listings == {ORGS} \cup OrgLogins \cup {LOGIN}
GqlBodies == {"data", "nulldata", "nodata"}
STAT_A == [login |-> LOGIN, commits |-> 5]
STAT_B == [login |-> "bob", commits |-> 1]
Payloads == {<<STAT_B, STAT_A>>, <<STAT_B>>}
FinalStatuses == {200, 204, 403, 500}

VARIABLES
  fair,        \* build: TRUE = FIFO hand-off semaphore, FALSE = python3.6 semaphore
  concur_max,  \* GHClient concur_max
  contrib_max, \* GHClient contrib_max
  owners,      \* list_contributions owners argument
  username,    \* list_contributions username (NoUser until resolved)
  sem,         \* GHClient.semaphore
  csem,        \* GHClient.contributors_sem
  mpc,         \* position of the list_contributions coroutine
  mq,          \* the query it has in hand (kind, listing name, after)
  gen,         \* state of the affected_owners generator
  tasks,       \* list_contributions tasks, in scheduling order
  doneQ,       \* as_completed: its queue of completed tasks (task ids)
  processed,   \* how many completed tasks the drain loop has consumed
  user_stats,  \* the report under construction
  raised,      \* exception that left list_contributions ("" = none)
  listings,    \* one record per paginated(...) generator instance
  srvPages,    \* the server: pages of every listing generated so far
  pageMax,     \* the server: length of its longest listing, in pages
  busy,        \* the server: may a stats endpoint answer 202?
  gqlLog       \* gql_request: the bodies received so far and what became of them

\* the inputs of one run: never changed
params == <<fair, concur_max, contrib_max, owners, pageMax, busy>>

vars == <<fair, concur_max, contrib_max, owners, username, sem, csem, mpc, mq,
          gen, tasks, doneQ, processed, user_stats, raised, listings,
          srvPages, pageMax, busy, gqlLog>>

\* ------------------------------------------------------------- semaphores
\* asyncio.Semaphore as a record: val (free slots), q (suspended waiters, FIFO)
\* and ready (waiters whose future is set and that have not run yet).
NewSem(n) == [val |-> n, q |-> <<>>, ready |-> {}]

\* May a caller take a slot without suspending? python3.6 looks at the value
\* only (a running coroutine overtakes woken waiters); the FIFO build also
\* requires that nobody is waiting.
SemFree(s) ==
  IF fair THEN s.val > 0 /\ s.q = <<>> /\ s.ready = {} ELSE s.val > 0

SemAcquire(s, id) ==
  IF SemFree(s) THEN [s EXCEPT !.val = @ - 1] ELSE [s EXCEPT !.q = Append(@, id)]

\* release(): python3.6 increments the value and wakes the first waiter; the
\* FIFO build hands the slot to the first waiter.
SemRelease(s) ==
  IF s.q = <<>> THEN [s EXCEPT !.val = @ + 1]
  ELSE IF fair THEN [s EXCEPT !.q = Tail(@), !.ready = @ \cup {Head(s.q)}]
  ELSE [s EXCEPT !.val = @ + 1, !.q = Tail(@), !.ready = @ \cup {Head(s.q)}]

\* FIFO build: a resumed waiter passes remaining free slots to the next waiters.
RECURSIVE SemPass(_)
SemPass(s) ==
  IF s.val > 0 /\ s.q # <<>>
  THEN SemPass([s EXCEPT !.val = @ - 1, !.q = Tail(@),
                         !.ready = @ \cup {Head(s.q)}])
  ELSE s

\* Does a woken waiter hold a slot once it runs?
SemResumed(s) == fair \/ s.val > 0

\* A woken waiter runs: it owns its slot (FIFO build), or takes one if a slot
\* is still free and else queues again at the tail (python3.6).
SemResume(s, id) ==
  IF fair THEN SemPass([s EXCEPT !.ready = @ \ {id}])
  ELSE IF s.val > 0 THEN [s EXCEPT !.val = @ - 1, !.ready = @ \ {id}]
  ELSE [s EXCEPT !.q = Append(@, id), !.ready = @ \ {id}]

\* ---------------------------------------------------------------- GHClient
\* (mutant) request() without the semaphore
request_enter_unbounded(s, id) == [s |-> s, ok |-> TRUE]

\* async with self.semaphore (entry): the semaphore afterwards, and whether the
\* caller goes on (ok) or is suspended in the queue.
request_enter(s, id) == [s |-> SemAcquire(s, id), ok |-> SemFree(s)]

\* a suspended request(...) caller is woken
request_resume(s, id) == [s |-> SemResume(s, id), ok |-> SemResumed(s)]

\* (mutant) the slot is not given back
request_exit_leak(s) == s

\* async with self.semaphore (exit, on every path)
request_exit(s) == SemRelease(s)

\* (mutant) contributors() without the semaphore
contributors_enter_unbounded(s, id) == [s |-> s, ok |-> TRUE]

\* async with self.contributors_sem (entry / woken)
contributors_enter(s, id) == [s |-> SemAcquire(s, id), ok |-> SemFree(s)]

contributors_resume(s, id) == [s |-> SemResume(s, id), ok |-> SemResumed(s)]

\* (mutant) the stats slot is not given back
contributors_exit_leak(s) == s

\* async with self.contributors_sem (exit, on every path)
contributors_exit(s) == SemRelease(s)

\* (mutant) a 200 answer is taken for "no contributions"
StatusAction_200empty(status) ==
  CASE status = 202 -> "retry"
    [] status \in {200, 204, 403} -> "empty"
    [] OTHER -> "raise"

\* (mutant) 403 is not a soft-empty code
StatusAction_403raise(status) ==
  CASE status = 202 -> "retry"
    [] status = 204 -> "empty"
    [] status = 200 -> "json"
    [] OTHER -> "raise"

\* (mutant) 403 is retried like 202
StatusAction_403retry(status) ==
  CASE status = 202 -> "retry"
    [] status = 403 -> "retry"
    [] status = 204 -> "empty"
    [] status = 200 -> "json"
    [] OTHER -> "raise"

\* __contributors: what the poller does with a response status
StatusAction(status) ==
  CASE status = 202 -> "retry"
    [] status = 204 -> "empty"
    [] status = 403 -> "empty"
    [] status = 200 -> "json"
    [] OTHER -> "raise"

\* saturating counter
Inc(n, cap) == IF n >= cap THEN cap ELSE n + 1

\* ------------------------------------------------------------ stats tasks
TaskIds == 1..Len(tasks)

NewTask(repo) ==
  [owner |-> repo.owner, name |-> repo.name, pc |-> "new",
   nreq |-> 0,      \* requests issued by the poller
   nsleep |-> 0,    \* asyncio.sleep calls of the poller
   srv202 |-> 0,    \* 202 answers the server gave this call
   status |-> 0,    \* last status received
   body |-> <<>>,   \* body of the 200 answer (server side)
   result |-> <<>>, \* value returned by __contributors
   exc |-> "",      \* exception the task ended with
   rank |-> 0,      \* the task was the rank-th to complete (0: not yet)
   late |-> FALSE]  \* it completed after as_completed had been entered

Running == mpc \notin {"returned", "aborted"}

\* The poller is at self.request(...): it sends the request or is suspended.
PollRequest(tk, ok) ==
  IF ok THEN [tk EXCEPT !.pc = "inflight", !.nreq = Inc(@, MaxPolls + 2)]
  ELSE [tk EXCEPT !.pc = "wGlobal"]

\* A scheduled task runs for the first time: contributors() up to its first
\* suspension.
TaskStart(t) ==
  /\ Running /\ tasks[t].pc = "new"
  /\ LET c == contributors_enter(csem, t)
         r == request_enter(sem, t)
     IN /\ csem' = c.s
        /\ IF c.ok
           THEN /\ sem' = r.s
                /\ tasks' = [tasks EXCEPT ![t] = PollRequest(@, r.ok)]
           ELSE /\ sem' = sem
                /\ tasks' = [tasks EXCEPT ![t].pc = "wStats"]
  /\ UNCHANGED <<params, gqlLog, username, mpc, mq, gen, doneQ, processed,
                 user_stats, raised, listings, srvPages>>

\* A task suspended on contributors_sem is woken.
TaskResumeStats(t) ==
  /\ Running /\ tasks[t].pc = "wStats" /\ t \in csem.ready
  /\ LET c == contributors_resume(csem, t)
         r == request_enter(sem, t)
     IN /\ csem' = c.s
        /\ IF c.ok
           THEN /\ sem' = r.s
                /\ tasks' = [tasks EXCEPT ![t] = PollRequest(@, r.ok)]
           ELSE UNCHANGED <<sem, tasks>>
  /\ UNCHANGED <<params, gqlLog, username, mpc, mq, gen, doneQ, processed,
                 user_stats, raised, listings, srvPages>>

\* A task suspended on the global semaphore is woken.
TaskResumeGlobal(t) ==
  /\ Running /\ tasks[t].pc = "wGlobal" /\ t \in sem.ready
  /\ LET r == request_resume(sem, t)
     IN /\ sem' = r.s
        /\ IF r.ok
           THEN tasks' = [tasks EXCEPT ![t] = PollRequest(@, TRUE)]
           ELSE UNCHANGED tasks
  /\ UNCHANGED <<params, gqlLog, username, csem, mpc, mq, gen, doneQ, processed,
                 user_stats, raised, listings, srvPages>>

\* (mutant) a completed task is put at the front of the queue
on_completion_front(q, t) == <<t>> \o q

\* (mutant) the callback loses the completed task
on_completion_drop(q, t) == q

\* as_completed._on_completion: done.put_nowait(f)
on_completion(q, t) == Append(q, t)

\* The task leaves request(...) and contributors(...) for good: both slots are
\* released; if as_completed has been entered, its callback queues the task.
TaskEnds(t, tk) ==
  /\ sem' = request_exit(sem)
  /\ csem' = contributors_exit(csem)
  /\ tasks' = [tasks EXCEPT ![t] =
       [tk EXCEPT !.rank = 1 + Cardinality({u \in TaskIds :
                                              tasks[u].pc \in {"done", "failed"}}),
                  !.late = (mpc = "drain")]]
  /\ doneQ' = IF mpc = "drain" THEN on_completion(doneQ, t) ELSE doneQ

\* The stats endpoint answers with a status.
StatsRespond(t) ==
  /\ Running /\ tasks[t].pc = "inflight"
  /\ \E status \in (IF busy THEN {202} ELSE {}) \cup FinalStatuses,
        body \in Payloads :
       LET tk == [tasks[t] EXCEPT !.status = status] IN
       CASE StatusAction(status) = "retry" ->
              /\ tasks' = [tasks EXCEPT ![t] =
                   [tk EXCEPT !.pc = "sleep",
                              !.srv202 = IF status = 202
                                         THEN Inc(@, MaxPolls + 1) ELSE @,
                              !.nsleep = Inc(@, MaxPolls + 1)]]
              /\ UNCHANGED <<sem, csem, doneQ>>
         [] StatusAction(status) = "json" ->
              TaskEnds(t, [tk EXCEPT !.pc = "done", !.body = body, !.result = body])
         [] StatusAction(status) = "empty" ->
              /\ body = CHOOSE b \in Payloads : TRUE
              /\ TaskEnds(t, [tk EXCEPT !.pc = "done"])
         [] OTHER ->
              /\ body = CHOOSE b \in Payloads : TRUE
              /\ TaskEnds(t, [tk EXCEPT !.pc = "failed", !.exc = "RuntimeError"])
  /\ UNCHANGED <<params, gqlLog, username, mpc, mq, gen, processed, user_stats,
                 raised, listings, srvPages>>

\* The request fails below HTTP (connection reset, DNS failure): aiohttp
\* raises a ClientError out of request(...).
StatsNetFail(t) ==
  /\ Running /\ tasks[t].pc = "inflight"
  /\ TaskEnds(t, [tasks[t] EXCEPT !.pc = "failed", !.exc = "ClientError"])
  /\ UNCHANGED <<params, gqlLog, username, mpc, mq, gen, processed, user_stats,
                 raised, listings, srvPages>>

\* (mutant) the retry stays inside one request block: the slot is kept
poll_again_hold(s, id) == [s |-> s, ok |-> TRUE]

\* After the sleep the request block is left (the global slot is released)
\* and the next iteration of the loop enters request(...) again.
poll_again(s, id) == request_enter(request_exit(s), id)

\* asyncio.sleep ends: the poller asks again or is suspended.
TaskWake(t) ==
  /\ Running /\ tasks[t].pc = "sleep"
  /\ LET r == poll_again(sem, t)
     IN /\ sem' = r.s
        /\ tasks' = [tasks EXCEPT ![t] = PollRequest(@, r.ok)]
  /\ UNCHANGED <<params, gqlLog, username, csem, mpc, mq, gen, doneQ, processed,
                 user_stats, raised, listings, srvPages>>

\* ------------------------------------------------------------- the server
RECURSIVE SumLen(_)
SumLen(pages) ==
  IF pages = <<>> THEN 0 ELSE Len(Head(pages).items) + SumLen(Tail(pages))

\* How often list_contributions scans owner l: the user is scanned once
\* more if it is also given as an explicit owner.
Scans(l) == IF l = LOGIN /\ l \in {owners[i] : i \in DOMAIN owners} THEN 2 ELSE 1

\* repository nodes the server has shown so far
ShownRepos ==
  LET RECURSIVE Sum(_)
      Sum(S) == IF S = {} THEN 0
                ELSE LET l == CHOOSE x \in S : TRUE
                     IN SumLen(srvPages[l]) + Sum(S \ {l})
  IN Sum(Listings \ {ORGS})

\* stats tasks the scan will schedule for them
ShownTasks ==
  LET RECURSIVE Sum(_)
      Sum(S) == IF S = {} THEN 0
                ELSE LET l == CHOOSE x \in S : TRUE
                     IN Scans(l) * SumLen(srvPages[l]) + Sum(S \ {l})
  IN Sum(Listings \ {ORGS})

RECURSIVE ConcatItems(_)
ConcatItems(pages) ==
  IF pages = <<>> THEN <<>> ELSE Head(pages).items \o ConcatItems(Tail(pages))

Range(f) == {f[i] : i \in DOMAIN f}

\* The page a cursor stands for: the server's cursor after page k of listing l
\* is the token <<l, k>>.
PageIndex(after) == IF after = NoCursor THEN 1 ELSE after[2] + 1

\* Pages the server may put after the ones it has shown of listing l.
FreshPages(l) ==
  LET idx == Len(srvPages[l]) + 1
      more == IF idx < pageMax THEN BOOLEAN ELSE {FALSE}
      orgItems == {<<>>} \cup
                  {<<[login |-> o]>> : o \in OrgLogins \ 
                        {n.login : n \in Range(ConcatItems(srvPages[ORGS]))}}
      repoItems == {[i \in 1..k |-> [owner |-> l,
                                      name |-> RepoNames[ShownRepos + i]]] :
                        k \in 0..((Len(RepoNames) - ShownTasks) \div Scans(l))}
  IN {[items |-> it,
       pageInfo |-> [hasNextPage |-> m, endCursor |-> <<l, idx>>]] :
          it \in (IF l = ORGS THEN orgItems ELSE repoItems), m \in more}

\* Pages the server may answer to a query for listing l with cursor after.
ServerPages(l, after) ==
  IF PageIndex(after) <= Len(srvPages[l])
  THEN {srvPages[l][PageIndex(after)]}
  ELSE FreshPages(l)

\* ------------------------------------------------------------- discovery
\* does the body have a top-level data field? ("nulldata": the field is there
\* and its value is null or empty)
HasDataField(body) == body \in {"data", "nulldata"}

\* (mutant) the response is accepted iff it has a data field
gql_ok_present(body) == HasDataField(body)

\* gql_request: the response is accepted iff res.get('data') is truthy
gql_ok(body) == body = "data"

\* gql_request has received body and returns res['data'] (ok) or raises
Answered(body, ok) == gqlLog \cup {[body |-> body, ok |-> ok]}

\* (mutant) the loop returns after the first page
PageStop_first(info) == TRUE

\* paginated: the loop returns on this page
PageStop(info) == ~info.hasNextPage

\* (mutant) the cursor is not carried over
NextAfter_stale(info) == NoCursor

\* paginated: the cursor of the next call
NextAfter(info) == info.endCursor

NewListing(q) ==
  [name |-> q.name, reqs |-> <<q.after>>, pages |-> <<>>, yielded |-> <<>>,
   done |-> FALSE]

\* wrapper calls func(..., after=after): the call is recorded in the
\* generator instance it belongs to (inst = 0: a new generator).
LogCall(ls, q) ==
  IF q.inst = 0 THEN Append(ls, NewListing(q))
  ELSE [ls EXCEPT ![q.inst].reqs = Append(@, q.after)]

InstOf(ls, q) == IF q.inst = 0 THEN Len(ls) + 1 ELSE q.inst

NoGen == [buf |-> <<>>, more |-> FALSE, cursor |-> NoCursor, inst |-> 0,
          userLeft |-> TRUE]

\* (mutant) the user is not yielded at the end
Advance_nouser(g, user, ls) ==
  IF g.buf # <<>>
  THEN [q |-> [kind |-> "repos", name |-> Head(g.buf), after |-> NoCursor,
               inst |-> 0],
        g |-> [g EXCEPT !.buf = Tail(@)],
        ls |-> IF g.inst = 0 THEN ls
               ELSE [ls EXCEPT ![g.inst].yielded =
                                   Append(@, [login |-> Head(g.buf)])]]
  ELSE IF g.more
  THEN [q |-> [kind |-> "orgs", name |-> ORGS, after |-> g.cursor,
               inst |-> g.inst],
        g |-> g, ls |-> ls]
  ELSE [q |-> NoQuery, g |-> [g EXCEPT !.userLeft = FALSE],
        ls |-> IF g.inst = 0 THEN ls ELSE [ls EXCEPT ![g.inst].done = TRUE]]

\* affected_owners and the outer loop of list_contributions: the next query
\* to send (or none: enumeration is over), the generator state and the log.
Advance(g, user, ls) ==
  IF g.buf # <<>>
  THEN [q |-> [kind |-> "repos", name |-> Head(g.buf), after |-> NoCursor,
               inst |-> 0],
        g |-> [g EXCEPT !.buf = Tail(@)],
        ls |-> IF g.inst = 0 THEN ls
               ELSE [ls EXCEPT ![g.inst].yielded =
                                   Append(@, [login |-> Head(g.buf)])]]
  ELSE IF g.more
  THEN [q |-> [kind |-> "orgs", name |-> ORGS, after |-> g.cursor,
               inst |-> g.inst],
        g |-> g, ls |-> ls]
  ELSE IF g.userLeft
  THEN [q |-> [kind |-> "repos", name |-> user, after |-> NoCursor, inst |-> 0],
        g |-> [g EXCEPT !.userLeft = FALSE],
        ls |-> IF g.inst = 0 THEN ls ELSE [ls EXCEPT ![g.inst].done = TRUE]]
  ELSE [q |-> NoQuery, g |-> g, ls |-> ls]

\* all orders in which the elements of the set S can be enumerated
Perms(S) ==
  {f \in [1..Cardinality(S) -> S] : \A i, j \in DOMAIN f : f[i] = f[j] => i = j}

\* asyncio.as_completed(tasks) is entered: it puts the tasks in a set and adds
\* its callback to each; the callbacks of the tasks that are already done run
\* in the iteration order of that set, before any other task completes.
as_completed(ts) ==
  Perms({t \in DOMAIN ts : ts[t].pc \in {"done", "failed"}})

\* The coroutine goes on from generator state g with semaphore s until it
\* suspends: on the next query's semaphore or response, or in the drain loop.
Proceed(g, user, ls, s, ts) ==
  LET a == Advance(g, user, ls)
      r == request_enter(s, MAIN)
  IN /\ gen' = a.g
     /\ username' = user
     /\ IF a.q = NoQuery
        THEN /\ mpc' = IF ts = <<>> THEN "returned" ELSE "drain"
             /\ mq' = NoQuery
             /\ sem' = s /\ listings' = a.ls
             /\ doneQ' \in as_completed(ts)
        ELSE /\ mpc' = IF r.ok THEN "inflight" ELSE "wait"
             /\ mq' = [a.q EXCEPT !.inst = InstOf(a.ls, a.q)]
             /\ sem' = r.s
             /\ listings' = LogCall(a.ls, a.q)
             /\ doneQ' = doneQ

\* affected_owners is entered with the user known.
StartOwners(user, s) ==
  IF owners # <<>>
  THEN Proceed([NoGen EXCEPT !.buf = owners], user, listings, s, tasks)
  ELSE LET q == [kind |-> "orgs", name |-> ORGS, after |-> NoCursor, inst |-> 0]
           r == request_enter(s, MAIN)
       IN /\ gen' = NoGen /\ username' = user
          /\ mpc' = IF r.ok THEN "inflight" ELSE "wait"
          /\ mq' = [q EXCEPT !.inst = InstOf(listings, q)]
          /\ sem' = r.s
          /\ listings' = LogCall(listings, q)
          /\ doneQ' = doneQ

\* list_contributions starts: the viewer query if no username was given.
MainStart ==
  /\ mpc = "start"
  /\ IF username = NoUser
     THEN LET r == request_enter(sem, MAIN)
          IN /\ mpc' = IF r.ok THEN "inflight" ELSE "wait"
             /\ mq' = [NoQuery EXCEPT !.kind = "viewer"]
             /\ sem' = r.s
             /\ UNCHANGED <<gen, username, listings, doneQ>>
     ELSE StartOwners(username, sem)
  /\ UNCHANGED <<params, gqlLog, csem, tasks, processed, user_stats, raised,
                 srvPages>>

\* The coroutine, suspended on the global semaphore, is woken.
MainResume ==
  /\ mpc = "wait" /\ MAIN \in sem.ready
  /\ LET r == request_resume(sem, MAIN)
     IN /\ sem' = r.s
        /\ mpc' = IF r.ok THEN "inflight" ELSE "wait"
  /\ UNCHANGED <<params, gqlLog, username, csem, mq, gen, tasks, doneQ, processed,
                 user_stats, raised, listings, srvPages>>

\* (mutant) the error is swallowed and the report so far is returned
QueryFails_swallow ==
  /\ mpc = "inflight"
  /\ \E body \in GqlBodies :
       /\ ~gql_ok(body)
       /\ gqlLog' = Answered(body, FALSE)
       /\ mpc' = "returned"
       /\ sem' = request_exit(sem)
  /\ UNCHANGED <<params, username, csem, mq, gen, tasks, doneQ, processed,
                 user_stats, raised, listings, srvPages>>

\* The query endpoint answers without a usable data field: gql_request raises
\* and the error leaves list_contributions.
QueryFails ==
  /\ mpc = "inflight"
  /\ \E body \in GqlBodies :
       /\ ~gql_ok(body)
       /\ gqlLog' = Answered(body, FALSE)
       /\ mpc' = "aborted" /\ raised' = "RuntimeError"
       /\ sem' = request_exit(sem)
  /\ UNCHANGED <<params, username, csem, mq, gen, tasks, doneQ, processed,
                 user_stats, listings, srvPages>>

\* The viewer query is answered.
ViewerResponds ==
  /\ mpc = "inflight" /\ mq.kind = "viewer"
  /\ \E body \in GqlBodies : gql_ok(body) /\ gqlLog' = Answered(body, TRUE)
  /\ StartOwners(LOGIN, request_exit(sem))
  /\ UNCHANGED <<params, csem, tasks, processed, user_stats, raised, srvPages>>

\* One page of a paginated listing has arrived: the loop body of wrapper, up
\* to the next call of func or the return.
PageStep(page, g, ls, ts) ==
  LET inst == mq.inst
      ls1 == [ls EXCEPT ![inst].pages = Append(@, page)]
      s1 == request_exit(sem)
      r == request_enter(s1, MAIN)
      q == [mq EXCEPT !.after = NextAfter(page.pageInfo)]
  IN /\ tasks' = ts
     /\ IF mq.kind = "repos" /\ ~PageStop(page.pageInfo)
        THEN /\ mq' = q
             /\ listings' = LogCall(ls1, q)
             /\ mpc' = IF r.ok THEN "inflight" ELSE "wait"
             /\ sem' = r.s
             /\ UNCHANGED <<gen, username, doneQ>>
        ELSE Proceed(g, username,
                     IF mq.kind = "repos"
                     THEN [ls1 EXCEPT ![inst].done = TRUE] ELSE ls1, s1, ts)

\* An organizations page is answered.
OrgsResponds ==
  /\ mpc = "inflight" /\ mq.kind = "orgs"
  /\ \E body \in GqlBodies : gql_ok(body) /\ gqlLog' = Answered(body, TRUE)
  /\ \E page \in ServerPages(ORGS, mq.after) :
       /\ srvPages' = IF PageIndex(mq.after) > Len(srvPages[ORGS])
                      THEN [srvPages EXCEPT ![ORGS] = Append(@, page)]
                      ELSE srvPages
       /\ PageStep(page,
                   [gen EXCEPT !.buf = [i \in DOMAIN page.items |->
                                           page.items[i].login],
                               !.more = ~PageStop(page.pageInfo),
                               !.cursor = NextAfter(page.pageInfo),
                               !.inst = mq.inst],
                   listings, tasks)
  /\ UNCHANGED <<params, csem, processed, user_stats, raised>>

\* (mutant) a repository that already has a task gets no second one
Schedule_dedup(ts, items) ==
  LET seen == {[owner |-> ts[i].owner, name |-> ts[i].name] : i \in DOMAIN ts}
      fresh == SelectSeq(items, LAMBDA r : r \notin seen)
  IN ts \o [i \in DOMAIN fresh |-> NewTask(fresh[i])]

\* tasks.append(asyncio.ensure_future(gh.contributors(...))) for every node
Schedule(ts, items) == ts \o [i \in DOMAIN items |-> NewTask(items[i])]

\* A repositories page is answered: one task per node is scheduled.
ReposResponds ==
  /\ mpc = "inflight" /\ mq.kind = "repos"
  /\ \E body \in GqlBodies : gql_ok(body) /\ gqlLog' = Answered(body, TRUE)
  /\ \E page \in ServerPages(mq.name, mq.after) :
       /\ srvPages' = IF PageIndex(mq.after) > Len(srvPages[mq.name])
                      THEN [srvPages EXCEPT ![mq.name] = Append(@, page)]
                      ELSE srvPages
       /\ PageStep(page, gen,
                   [listings EXCEPT ![mq.inst].yielded = @ \o page.items],
                   Schedule(tasks, page.items))
  /\ UNCHANGED <<params, csem, processed, user_stats, raised>>

\* ------------------------------------------------------------- aggregation
\* (mutant) no except clause
Caught_none(exc) == FALSE

\* except RuntimeError
Caught(exc) == exc = "RuntimeError"

\* (mutant) no filter on the author
UserStats_all(contributions, user) == contributions

\* [c for c in contributions if c['author']['login'] == username]
UserStats(contributions, user) ==
  SelectSeq(contributions, LAMBDA c : c.login = user)

\* (mutant) the first failed task ends the loop: the report so far is returned
Drain_stop_on_failure ==
  /\ mpc = "drain" /\ processed < Len(doneQ)
  /\ LET t == doneQ[processed + 1]
         tk == tasks[t]
         stats == UserStats(tk.result, username)
         after == IF processed + 1 = Len(tasks) THEN "returned" ELSE "drain"
     IN IF tk.pc = "failed"
        THEN /\ processed' = processed + 1 /\ mpc' = "returned"
             /\ UNCHANGED <<raised, user_stats>>
        ELSE /\ processed' = processed + 1 /\ mpc' = after
             /\ user_stats' =
                  IF stats # <<>>
                  THEN Append(user_stats,
                              [task |-> t,
                               repo |-> [owner |-> tk.owner, name |-> tk.name],
                               stats |-> stats[1]])
                  ELSE user_stats
             /\ UNCHANGED raised
  /\ UNCHANGED <<params, gqlLog, username, sem, csem, mq, gen, tasks, doneQ,
                 listings, srvPages>>

\* The drain loop takes the next completed task; after the last one the
\* report is returned.
Drain ==
  /\ mpc = "drain" /\ processed < Len(doneQ)
  /\ LET t == doneQ[processed + 1]
         tk == tasks[t]
         stats == UserStats(tk.result, username)
         after == IF processed + 1 = Len(tasks) THEN "returned" ELSE "drain"
     IN IF tk.pc = "failed"
        THEN IF Caught(tk.exc)
             THEN /\ processed' = processed + 1 /\ mpc' = after
                  /\ UNCHANGED <<raised, user_stats>>
             ELSE /\ mpc' = "aborted" /\ raised' = tk.exc
                  /\ UNCHANGED <<processed, user_stats>>
        ELSE /\ processed' = processed + 1 /\ mpc' = after
             /\ user_stats' =
                  IF stats # <<>>
                  THEN Append(user_stats,
                              [task |-> t,
                               repo |-> [owner |-> tk.owner, name |-> tk.name],
                               stats |-> stats[1]])
                  ELSE user_stats
             /\ UNCHANGED raised
  /\ UNCHANGED <<params, gqlLog, username, sem, csem, mq, gen, tasks, doneQ,
                 listings, srvPages>>

\* ---------------------------------------------------------- specification
\* The arguments of list_contributions, and the state after GHClient.__init__.
Inputs ==
  /\ fair \in BOOLEAN
  /\ concur_max \in 1..MaxCap
  /\ contrib_max \in 1..MaxCap
  /\ pageMax \in 1..MaxPages
  /\ busy \in BOOLEAN
  /\ owners \in OwnerArgs
  /\ username \in {NoUser, LOGIN}
  /\ sem = NewSem(concur_max)
  /\ csem = NewSem(contrib_max)
  /\ mpc = "start" /\ mq = NoQuery /\ gen = NoGen
  /\ tasks = <<>> /\ doneQ = <<>> /\ processed = 0 /\ user_stats = <<>>
  /\ raised = ""
  /\ listings = <<>>
  /\ gqlLog = {}
  /\ srvPages = [l \in Listings |-> <<>>]

\* The inputs are drawn from two families. Either the caps vary, every listing
\* is one page long and the stats endpoints may answer 202; or the listings are
\* up to MaxPages long, both caps are 1 and no stats endpoint answers 202.
Init ==
  /\ Inputs
  /\ \/ pageMax = 1 /\ busy
     \/ pageMax > 1 /\ concur_max = 1 /\ contrib_max = 1 /\ ~busy

Next ==
  \/ MainStart
  \/ MainResume
  \/ QueryFails
  \/ ViewerResponds
  \/ OrgsResponds
  \/ ReposResponds
  \/ Drain
  \/ \E t \in TaskIds : TaskStart(t)
  \/ \E t \in TaskIds : TaskResumeStats(t)
  \/ \E t \in TaskIds : TaskResumeGlobal(t)
  \/ \E t \in TaskIds : StatsRespond(t)
  \/ \E t \in TaskIds : StatsNetFail(t)
  \/ \E t \in TaskIds : TaskWake(t)

Spec == Init /\ [][Next]_vars

\* Inputs of the progress properties: the user is looked up, the owners are
\* the user's organizations, the listings have two pages, the global cap is 1
\* (the stats cap is 1 or 2) and the stats endpoints may answer 202 for ever.
LiveInit ==
  /\ Inputs
  /\ busy /\ pageMax = 2 /\ concur_max = 1 /\ contrib_max \in {1, 2}
  /\ owners = <<>> /\ username = NoUser

TaskSlots == 1..Len(RepoNames)

\* The event loop runs every coroutine that is ready, every sleep ends and
\* every request sent is answered.
Fairness ==
  /\ WF_vars(MainStart) /\ WF_vars(MainResume) /\ WF_vars(Drain)
  /\ WF_vars(QueryFails \/ ViewerResponds \/ OrgsResponds \/ ReposResponds)
  /\ \A t \in TaskSlots :
       /\ WF_vars(t \in TaskIds /\ TaskStart(t))
       /\ WF_vars(t \in TaskIds /\ TaskResumeStats(t))
       /\ WF_vars(t \in TaskIds /\ TaskResumeGlobal(t))
       /\ WF_vars(t \in TaskIds /\ TaskWake(t))
       /\ WF_vars(t \in TaskIds /\ (StatsRespond(t) \/ StatsNetFail(t)))

LiveSpec == LiveInit /\ [][Next]_vars /\ Fairness

\* ------------------------------------------------------------------ claims
Finished(t) == tasks[t].pc \in {"done", "failed"}

InFlightTasks == {t \in TaskIds : tasks[t].pc = "inflight"}

\* HTTP requests in flight through GHClient.request
InFlight == Cardinality(InFlightTasks) + (IF mpc = "inflight" THEN 1 ELSE 0)

\* callers inside the block of GHClient.request (a stats task stays in it
\* while it sleeps after a 202)
InRequest ==
  Cardinality({t \in TaskIds : tasks[t].pc \in {"inflight", "sleep"}})
    + (IF mpc = "inflight" THEN 1 ELSE 0)

\* C1: in every reachable state the number of requests in flight through
\* GHClient.request (viewer, pagination and stats requests together) is at
\* most concur_max; so is the number of callers inside its block.
C1_GlobalCeiling == InFlight <= InRequest /\ InRequest <= concur_max

\* cap 2 is reached by a query and a stats request while another task waits
C1_Witness ==
  /\ concur_max = 2 /\ InFlight = 2 /\ mpc = "inflight"
  /\ \E t \in TaskIds : tasks[t].pc = "wGlobal"

\* tasks inside the poll protocol: from the first self.request(...) of
\* __contributors to its return or failure
InPoll == {t \in TaskIds : tasks[t].pc \in {"wGlobal", "inflight", "sleep"}}

\* C2: at most contrib_max tasks are inside the poll protocol, whatever the
\* global cap; every other unfinished task is before or on the stats
\* semaphore and has issued no request.
C2_StatsCeiling ==
  /\ Cardinality(InPoll) <= contrib_max
  /\ \A t \in TaskIds \ InPoll :
       ~Finished(t) => tasks[t].pc \in {"new", "wStats"} /\ tasks[t].nreq = 0

\* stats cap 1 under global cap 2: one task sleeps after a 202, the other
\* waits on the stats semaphore
C2_Witness ==
  /\ contrib_max = 1 /\ concur_max = 2
  /\ \E t, u \in TaskIds :
       /\ tasks[t].pc = "sleep"
       /\ tasks[u].pc = "wStats" /\ tasks[u].nreq = 0

\* C3: a poller that got 202 exactly N times and then 200 has issued N+1
\* requests, slept N times and returns the body of the 200 answer.
C3_PollConvergence ==
  \A t \in TaskIds :
    /\ (tasks[t].status = 200 /\ tasks[t].srv202 <= MaxPolls) =>
         /\ tasks[t].pc = "done"
         /\ tasks[t].nreq = tasks[t].srv202 + 1
         /\ tasks[t].nsleep = tasks[t].srv202
         /\ tasks[t].result = tasks[t].body
         /\ tasks[t].body \in Payloads
    /\ (tasks[t].pc = "sleep" /\ tasks[t].srv202 <= MaxPolls) =>
         /\ tasks[t].nsleep = tasks[t].srv202
         /\ tasks[t].nreq = tasks[t].srv202

C3_Witness ==
  \E t \in TaskIds :
    /\ tasks[t].pc = "done" /\ tasks[t].status = 200
    /\ tasks[t].srv202 = 1 /\ tasks[t].nreq = 2 /\ tasks[t].nsleep = 1
    /\ tasks[t].result = <<STAT_B, STAT_A>>

\* C4: the first status other than 202 ends the poller: 200 returns the
\* list, 204 and 403 return the empty list, any other status raises; no
\* request follows that answer.
C4_StatusOutcome ==
  \A t \in TaskIds :
    /\ tasks[t].status \notin {0, 202} =>
         /\ Finished(t)
         /\ tasks[t].srv202 <= MaxPolls => tasks[t].nreq = tasks[t].srv202 + 1
    /\ tasks[t].status = 200 =>
         tasks[t].pc = "done" /\ tasks[t].result = tasks[t].body
    /\ tasks[t].status \in {204, 403} =>
         tasks[t].pc = "done" /\ tasks[t].result = <<>>
    /\ tasks[t].status \notin {0, 200, 202, 204, 403} =>
         tasks[t].pc = "failed" /\ tasks[t].exc = "RuntimeError"
    /\ (Finished(t) /\ tasks[t].exc # "ClientError") =>
         tasks[t].status \notin {0, 202}

C4_Witness ==
  \E t, u \in TaskIds :
    /\ tasks[t].status = 403 /\ tasks[t].pc = "done" /\ tasks[t].srv202 = 1
    /\ tasks[u].status = 500 /\ tasks[u].pc = "failed"

\* pages of a listing up to and including the first without a next page
RECURSIVE UpToStop(_)
UpToStop(pages) ==
  IF pages = <<>> THEN <<>>
  ELSE IF ~Head(pages).pageInfo.hasNextPage THEN <<Head(pages)>>
  ELSE <<Head(pages)>> \o UpToStop(Tail(pages))

IsPrefix(a, b) == Len(a) <= Len(b) /\ a = SubSeq(b, 1, Len(a))

\* items a listing has handed out, with the ones the organizations generator
\* still holds
HandedOut(i) ==
  listings[i].yielded \o
    (IF i = gen.inst THEN [k \in DOMAIN gen.buf |-> [login |-> gen.buf[k]]]
     ELSE <<>>)

\* C5: a paginated listing receives the server's pages in order, yields
\* exactly the concatenation of their items (empty pages included), ends on
\* the first page without a next page and requests no page after it.
C5_PaginationConcat ==
  \A i \in DOMAIN listings :
    LET l == listings[i]
        truth == UpToStop(srvPages[l.name])
    IN /\ IsPrefix(l.pages, truth)
       /\ HandedOut(i) = ConcatItems(l.pages)
       /\ Len(l.reqs) <= Len(truth) \/ Len(l.reqs) = Len(l.pages) + 1
       /\ l.done => /\ l.pages = truth /\ l.pages # <<>>
                    /\ ~l.pages[Len(l.pages)].pageInfo.hasNextPage
                    /\ Len(l.reqs) = Len(l.pages)
                    /\ l.yielded = ConcatItems(truth)
       /\ (l.name # ORGS /\ l.pages # <<>>
             /\ ~l.pages[Len(l.pages)].pageInfo.hasNextPage) => l.done

\* a finished listing of two pages: an empty first page, a second with items
C5_Witness ==
  \E i \in DOMAIN listings :
    /\ listings[i].done /\ Len(listings[i].pages) = 2
    /\ listings[i].pages[1].items = <<>>
    /\ listings[i].yielded # <<>>

\* C6: the first page is requested without a cursor, page k+1 with the
\* endCursor of page k, and only after page k has arrived: a listing has at
\* most one request outstanding.
C6_CursorThreading ==
  \A i \in DOMAIN listings :
    LET l == listings[i] IN
    /\ l.reqs[1] = NoCursor
    /\ \A k \in 2..Len(l.reqs) :
         /\ k - 1 <= Len(l.pages)
         /\ l.reqs[k] = l.pages[k - 1].pageInfo.endCursor
    /\ Len(l.reqs) - Len(l.pages) \in {0, 1}
    /\ Len(l.reqs) = Len(l.pages) + 1 =>
         /\ mq.inst = i /\ mpc \in {"wait", "inflight", "aborted"}
         /\ mq.after = l.reqs[Len(l.reqs)]

C6_Witness ==
  \E i \in DOMAIN listings :
    /\ Len(listings[i].reqs) = 2 /\ Len(listings[i].pages) = 1
    /\ listings[i].reqs[2] = <<listings[i].name, 1>>
    /\ mpc = "inflight"

\* report entries of task t
EntriesOf(t) == {i \in DOMAIN user_stats : user_stats[i].task = t}

\* tasks the drain loop has consumed
Consumed == {doneQ[k] : k \in 1..processed}

HasUser(t) == \E k \in DOMAIN tasks[t].result : tasks[t].result[k].login = username

\* repository nodes the listings have yielded
Discovered ==
  UNION {Range(listings[i].yielded) : i \in {j \in DOMAIN listings :
                                              listings[j].name # ORGS}}

\* C7: the report holds exactly one entry for a task, with the task's
\* (owner, name) and the user's stat, iff the task completed successfully
\* and its stats list holds a record of the target user; else none. Every
\* entry's repository was yielded by discovery.
C7_FilterCorrect ==
  /\ \A t \in TaskIds :
       IF t \in Consumed /\ tasks[t].pc = "done" /\ HasUser(t)
       THEN /\ Cardinality(EntriesOf(t)) = 1
            /\ \A i \in EntriesOf(t) :
                 /\ user_stats[i].repo =
                      [owner |-> tasks[t].owner, name |-> tasks[t].name]
                 /\ user_stats[i].stats.login = username
                 /\ user_stats[i].stats \in Range(tasks[t].result)
       ELSE EntriesOf(t) = {}
  /\ \A i \in DOMAIN user_stats : user_stats[i].repo \in Discovered
  /\ mpc = "returned" => Consumed = TaskIds

\* authors [bob, alice] give one entry, authors [bob] give none
C7_Witness ==
  /\ mpc = "returned" /\ Len(user_stats) = 1
  /\ \E t, u \in TaskIds :
       /\ tasks[t].result = <<STAT_B, STAT_A>> /\ EntriesOf(t) # {}
       /\ user_stats[1].stats = STAT_A
       /\ tasks[u].result = <<STAT_B>> /\ tasks[u].status = 200

\* C8: a stats task that fails on an unexpected status is skipped: it never
\* ends the scan, it has no entry, and the returned report holds the entry of
\* every other repository whose stats hold the target user.
C8_FailureIsolated ==
  /\ (mpc = "aborted" /\ mq = NoQuery) => raised # "RuntimeError"
  /\ \A t \in TaskIds :
       (tasks[t].pc = "failed" /\ tasks[t].exc = "RuntimeError") =>
          /\ EntriesOf(t) = {}
          /\ (mpc = "drain" /\ t \in Consumed) => raised = ""
  /\ mpc = "returned" =>
       /\ processed = Len(tasks)
       /\ \A t \in TaskIds :
            (tasks[t].pc = "done" /\ HasUser(t)) => EntriesOf(t) # {}

\* the failed task was consumed first and the other repository is reported
C8_Witness ==
  /\ mpc = "returned" /\ Len(doneQ) = 2
  /\ tasks[doneQ[1]].pc = "failed" /\ tasks[doneQ[1]].exc = "RuntimeError"
  /\ EntriesOf(doneQ[2]) # {}

\* C9: a network-level failure inside a stats task is contained at the task
\* boundary like an unexpected status: it never ends the scan.
C9_NetFailureContained ==
  ~(mpc = "aborted" /\ mq = NoQuery /\ raised = "ClientError")

\* C10: a discovery query is not starved by stats polls. With the python3.6
\* semaphore the coroutine that issues the queries is never suspended on the
\* global semaphore; with the FIFO semaphore a query that waits for a slot is
\* granted one and sent, also while stats endpoints answer 202 for ever.
C10_QueryNotStarved ==
  /\ [](~fair => mpc # "wait")
  /\ (mpc = "wait") ~> (mpc = "inflight")

\* a query waits while the only global slot is held by a task that sleeps
\* after more than MaxPolls 202 answers, the stats cap being 2
C10_Witness ==
  /\ mpc = "wait" /\ concur_max = 1 /\ contrib_max = 2
  /\ \E t \in TaskIds : tasks[t].pc = "sleep" /\ tasks[t].srv202 > MaxPolls

\* slots of semaphore s that are taken, cap being its capacity
Held(s, cap) == cap - s.val

\* slots the FIFO build has taken on behalf of woken waiters that have not
\* run yet (python3.6 leaves the slot free until the waiter runs)
Reserved(s) == IF fair THEN Cardinality(s.ready) ELSE 0

\* no request and no contributors() call is under way
Quiet ==
  /\ mpc \notin {"wait", "inflight"}
  /\ \A t \in TaskIds : tasks[t].pc \in {"new", "done", "failed"}

\* C11: the slots taken of each semaphore are exactly the callers inside the
\* block it guards (with the slots reserved for woken waiters), on every exit
\* path: return, soft-empty return, unexpected status, protocol error,
\* exception; both semaphores are at full capacity once nothing is under way.
C11_SlotsReturned ==
  /\ Held(sem, concur_max) = InRequest + Reserved(sem)
  /\ Held(csem, contrib_max) = Cardinality(InPoll) + Reserved(csem)
  /\ sem.val >= 0 /\ csem.val >= 0
  /\ Quiet => sem = NewSem(concur_max) /\ csem = NewSem(contrib_max)

\* after a soft-empty return and an unexpected status, both semaphores are full
C11_Witness ==
  /\ mpc = "returned" /\ Len(tasks) = 2
  /\ \E t, u \in TaskIds :
       /\ tasks[t].pc = "failed" /\ tasks[t].exc = "RuntimeError"
       /\ tasks[u].pc = "done" /\ tasks[u].status = 204
  /\ sem = NewSem(concur_max) /\ csem = NewSem(contrib_max)

\* The owners affected_owners has yielded, in order: list_contributions opens
\* one repositories listing for each.
OwnersYielded ==
  LET ls == SelectSeq(listings, LAMBDA l : l.name # ORGS)
  IN [i \in DOMAIN ls |-> ls[i].name]

OrgsListings == {i \in DOMAIN listings : listings[i].name = ORGS}

\* organization logins received so far, in pagination order
OrgsReceived ==
  IF OrgsListings = {} THEN <<>>
  ELSE LET items == ConcatItems(listings[CHOOSE i \in OrgsListings : TRUE].pages)
       IN [k \in DOMAIN items |-> items[k].login]

\* enumeration is over: the loop over affected_owners has ended
EnumDone == mpc \in {"drain", "returned"} \/ (mpc = "aborted" /\ mq = NoQuery)

\* C12: affected_owners yields the explicit owners in their order and issues
\* no organizations query, or else the organization logins in pagination
\* order; then, once and last, the user.
C12_OwnersSequence ==
  LET base == IF owners # <<>> THEN owners ELSE OrgsReceived IN
  /\ owners # <<>> => OrgsListings = {}
  /\ Cardinality(OrgsListings) <= 1
  /\ IF gen.userLeft
     THEN IsPrefix(OwnersYielded, base)
     ELSE /\ OwnersYielded = base \o <<username>>
          /\ \A i \in OrgsListings :
               /\ listings[i].done
               /\ OrgsReceived =
                    [k \in DOMAIN ConcatItems(UpToStop(srvPages[ORGS])) |->
                       ConcatItems(UpToStop(srvPages[ORGS]))[k].login]
  /\ EnumDone => ~gen.userLeft

\* the organization arrived on the second page; the user comes last
C12_Witness ==
  /\ EnumDone /\ owners = <<>>
  /\ OwnersYielded = <<"acme", LOGIN>>
  /\ \E i \in OrgsListings :
       Len(listings[i].pages) = 2 /\ listings[i].pages[1].items = <<>>

\* repository nodes yielded by discovery, over all owners in scan order
YieldedRepos ==
  LET RECURSIVE Cat(_)
      Cat(ls) == IF ls = <<>> THEN <<>>
                 ELSE (IF Head(ls).name = ORGS THEN <<>> ELSE Head(ls).yielded)
                        \o Cat(Tail(ls))
  IN Cat(listings)

RepoOf(t) == [owner |-> tasks[t].owner, name |-> tasks[t].name]

\* C13: the tasks are the repository nodes yielded by discovery, one task per
\* node in order and with multiplicity: a repository yielded twice has two
\* tasks, and each of them whose stats hold the target user has its own
\* report entry.
C13_TaskPerNode ==
  /\ [t \in TaskIds |-> RepoOf(t)] = YieldedRepos
  /\ mpc = "returned" =>
       /\ \A t \in TaskIds :
            (tasks[t].pc = "done" /\ HasUser(t)) => Cardinality(EntriesOf(t)) = 1
       /\ Len(user_stats) =
            Cardinality({t \in TaskIds : tasks[t].pc = "done" /\ HasUser(t)})

\* the user is also the explicit owner: the repository is fetched twice and
\* reported twice
C13_Witness ==
  /\ mpc = "returned" /\ owners = <<LOGIN>> /\ Len(tasks) = 2
  /\ RepoOf(1) = RepoOf(2)
  /\ Len(user_stats) = 2 /\ user_stats[1].repo = user_stats[2].repo
  /\ user_stats[1].task # user_stats[2].task

\* the task of report entry i
EntryTask(i) == tasks[user_stats[i].task]

\* C14: the report is in completion order: of any two report entries, the
\* one placed earlier belongs to the task that completed earlier.
C14_CompletionOrder ==
  \A i, j \in DOMAIN user_stats :
    i < j => EntryTask(i).rank < EntryTask(j).rank

\* What the drain loop does keep: the tasks are consumed in the order of the
\* as_completed queue. A task that completes after as_completed has been
\* entered is queued, and reported, after every task that completed before
\* it; tasks that had completed earlier come first, in any order.
QueueOrder ==
  /\ \A i, j \in DOMAIN doneQ :
       (i < j /\ tasks[doneQ[j]].late) =>
          tasks[doneQ[i]].rank < tasks[doneQ[j]].rank
  /\ \A i, j \in DOMAIN doneQ : (i < j /\ tasks[doneQ[i]].late) => tasks[doneQ[j]].late
  /\ \A i, j \in DOMAIN user_stats :
       /\ i < j =>
            \E a, b \in 1..processed :
              a < b /\ doneQ[a] = user_stats[i].task /\ doneQ[b] = user_stats[j].task
       /\ (i < j /\ EntryTask(j).late) => EntryTask(i).rank < EntryTask(j).rank
  /\ \A t \in TaskIds : tasks[t].late => t \in Range(doneQ)
  /\ mpc \in {"drain", "returned"} =>
       Range(doneQ) = {t \in TaskIds : tasks[t].pc \in {"done", "failed"}}

\* both tasks completed while the drain loop was waiting, the second
\* scheduled first: the report is in completion order, not scheduling order
QueueOrder_Witness ==
  /\ mpc = "returned" /\ Len(user_stats) = 2
  /\ EntryTask(1).late /\ EntryTask(2).late
  /\ user_stats[1].task = 2 /\ user_stats[2].task = 1
  /\ EntryTask(1).rank = 1 /\ EntryTask(2).rank = 2

\* C15: gql_request returns the data object exactly when the response body
\* has a top-level data field, whatever its value, and fails exactly when the
\* field is absent.
C15_DataFieldDecides ==
  \A e \in gqlLog : e.ok <=> HasDataField(e.body)

\* C15 (amended): gql_request returns the data object exactly when the body
\* has a data field whose value is not null or empty; it fails with a
\* RuntimeError when the field is absent and also when its value is null or
\* empty.
C15_TruthyDataDecides ==
  /\ \A e \in gqlLog : e.ok <=> e.body = "data"
  /\ (\E e \in gqlLog : ~e.ok) <=> (raised = "RuntimeError" /\ mq # NoQuery)

\* a first query returned its data, the next was answered "data": null
C15_Witness ==
  /\ [body |-> "data", ok |-> TRUE] \in gqlLog
  /\ [body |-> "nulldata", ok |-> FALSE] \in gqlLog
  /\ mpc = "aborted"

\* a query of the enumeration has raised
QueryRaised == \E e \in gqlLog : ~e.ok

\* C16: a protocol error of a viewer, organizations or repositories query
\* aborts the scan: the error leaves list_contributions and no report is
\* returned; from the failing answer on no discovery query is issued and no
\* stats task is scheduled.
C16_ErrorAborts ==
  /\ [](QueryRaised =>
          /\ mpc = "aborted" /\ raised = "RuntimeError"
          /\ user_stats = <<>> /\ processed = 0)
  /\ [][QueryRaised' =>
          /\ Len(tasks') = Len(tasks)
          /\ listings' = listings /\ mq' = mq]_vars

\* the second repositories query fails after a task has been scheduled and
\* has sent its request
C16_Witness ==
  /\ QueryRaised /\ mpc = "aborted" /\ mq.kind = "repos"
  /\ Len(listings) >= 2
  /\ \E t \in TaskIds : tasks[t].pc = "inflight"

\* the stats endpoint answered task t with an unexpected status
FailedOnStatus(t) == tasks[t].pc = "failed" /\ tasks[t].exc = "RuntimeError"

\* C17: tasks that fail on an unexpected status never end the scan early: the
\* drain loop goes on to the next completed task, the report is returned only
\* when every scheduled task has completed and been consumed, and when every
\* task has failed that way the report returned is empty.
C17_OutageDrained ==
  /\ mpc = "returned" =>
       /\ \A t \in TaskIds : Finished(t)
       /\ processed = Len(tasks) /\ Consumed = TaskIds
  /\ (mpc = "returned" /\ \A t \in TaskIds : FailedOnStatus(t)) =>
       user_stats = <<>>
  /\ (\A t \in TaskIds : Finished(t) => FailedOnStatus(t)) =>
       /\ ~(mpc = "aborted" /\ mq = NoQuery)
       /\ user_stats = <<>>
  /\ (mpc = "drain" /\ \A t \in TaskIds : Finished(t)) =>
       processed < Len(doneQ) /\ Len(doneQ) = Len(tasks)

\* both repositories answered 500, one before and one after the drain loop
\* began; the scan returned the empty report
C17_Witness ==
  /\ mpc = "returned" /\ Len(tasks) = 2 /\ user_stats = <<>>
  /\ \A t \in TaskIds : FailedOnStatus(t) /\ tasks[t].status = 500
  /\ \E t, u \in TaskIds : ~tasks[t].late /\ tasks[u].late

\* C18: the global slots taken (those reserved for woken waiters aside) never
\* exceed the requests in flight: a task that sleeps after a 202 holds no
\* global slot.
C18_SlotOnlyInFlight ==
  Held(sem, concur_max) <= InFlight + Reserved(sem)

\* coroutines suspended on semaphore s or woken by it
Waiters(s) == Range(s.q) \cup s.ready

\* task t is suspended on a semaphore and has not been woken
Blocked(t) ==
  \/ tasks[t].pc = "wStats" /\ t \notin csem.ready
  \/ tasks[t].pc = "wGlobal" /\ t \notin sem.ready

\* some coroutine can run, or waits for the server or for its sleep to end
Progressing ==
  \/ mpc \in {"start", "inflight"}
  \/ mpc = "wait" /\ MAIN \in sem.ready
  \/ mpc = "drain" /\ processed < Len(doneQ)
  \/ \E t \in TaskIds : ~Finished(t) /\ ~Blocked(t)

\* C19: the two semaphores cannot deadlock. Only tasks wait for a stats slot,
\* and they hold no global slot and wait for none while they do; a task waits
\* for a global slot only while it holds a stats slot; whoever holds a global
\* slot waits for no semaphore. So while the scan is under way some coroutine
\* is never blocked on a semaphore.
C19_NoDeadlock ==
  /\ \A w \in Waiters(csem) :
       /\ w \in TaskIds /\ tasks[w].pc = "wStats"
       /\ w \notin Waiters(sem)
  /\ \A w \in Waiters(sem) \ {MAIN} :
       /\ w \in TaskIds /\ tasks[w].pc = "wGlobal"
       /\ w \notin Waiters(csem)
  /\ MAIN \in Waiters(sem) <=> mpc = "wait"
  /\ \A t \in TaskIds :
       /\ tasks[t].pc = "wStats" <=> t \in Waiters(csem)
       /\ tasks[t].pc = "wGlobal" <=> t \in Waiters(sem)
  /\ Running => Progressing

\* both caps are 1: one task has both slots and its request in flight, the
\* other task waits for the stats slot and the next query for the global slot
C19_Witness ==
  /\ concur_max = 1 /\ contrib_max = 1
  /\ mpc = "wait" /\ MAIN \notin sem.ready
  /\ \E t, u \in TaskIds :
       /\ tasks[t].pc = "inflight"
       /\ tasks[u].pc = "wStats" /\ Blocked(u)

\* the last answer some poller got was 202
Queued202 == \E t \in TaskIds : tasks[t].status = 202

\* a request failed below HTTP: it was never answered
Unanswered == \E t \in TaskIds : tasks[t].exc = "ClientError"

\* C20: if the listings are finite, every request is answered (no query is
\* answered with a protocol error, no request fails below HTTP) and the stats
\* endpoints answer 202 only finitely often, the scan returns its report,
\* also with more repositories than slots. Conversely only a 202 answer is
\* retried, a poller whose last answer was 202 has neither returned nor
\* failed, every completed task reaches the drain loop, and the scan returns
\* only when no poller is left: an endpoint that answers 202 for ever keeps
\* the scan from returning.
C20_Termination ==
  /\ (<>[]~Queued202) => <>(mpc = "returned" \/ QueryRaised \/ Unanswered)
  /\ [](\A t \in TaskIds : tasks[t].pc = "sleep" => tasks[t].status = 202)
  /\ [](\A t \in TaskIds :
         tasks[t].status = 202 =>
            tasks[t].pc \in {"sleep", "wGlobal", "inflight"} \/ Unanswered)
  /\ [](mpc = "drain" =>
         Range(doneQ) = {t \in TaskIds : Finished(t)})
  /\ [](mpc = "returned" =>
         \A t \in TaskIds : Finished(t) /\ tasks[t].status # 202)

\* two repositories under caps of 1: the scan has returned after one poller
\* had been answered 202 and then 200
C20_Witness ==
  /\ mpc = "returned" /\ Len(tasks) = 2
  /\ concur_max = 1 /\ contrib_max = 1
  /\ \E t \in TaskIds :
       tasks[t].srv202 = 1 /\ tasks[t].nsleep = 1 /\ tasks[t].status = 200

\* a poller has been answered 202 more than MaxPolls times and sleeps again
\* while the drain loop waits for it
C20_Witness202 ==
  /\ mpc = "drain" /\ processed = Len(doneQ)
  /\ \E t \in TaskIds : tasks[t].pc = "sleep" /\ tasks[t].srv202 > MaxPolls

====
